---- MODULE Spec2Model ----
(***************************************************************************)
(* Model of backend/app.py: the Dequoter fix_malformed_json and the SQL    *)
(* batch emitter generate_sql.                                             *)
(*                                                                         *)
(* Text is a sequence of one-character strings.  JSON values are records   *)
(* tagged by t: "num", "str", "arr", "obj", "lit".                         *)
(***************************************************************************)
EXTENDS Integers, Sequences, FiniteSets, TLC

VARIABLES
    \* ---- one call of fix_malformed_json ----
    malformed_json_string,  \* the argument: a text, or NotAString
    original_string,        \* app.py:34
    current_string,         \* app.py:38
    iter,                   \* number of completed loop iterations (the for counter)
    strips,                 \* number of quote layers removed so far
    attempts,               \* the strings handed to the first json.loads, in order
    data,                   \* the parsed value
    fixpc,                  \* "idle", "start", "loop", "dumps", "done"
    outcome,                \* "none", "returned", "decode", "processing"
    fixed,                  \* the returned text
    source,                 \* how the first argument was made: [kind, value, layers]
    pass,                   \* 1: the call on the input; 2: the call on the first result
    first_fixed,            \* what the first call returned
    \* ---- one call of generate_sql ----
    records, mode, batch_size,
    i,                      \* the range() position, app.py:169
    parts,                  \* app.py:167
    sqlpc,                  \* "idle", "start", "loop", "done"
    script,                 \* the returned script: the joined parts
    \* ---- one request to /api/fix-json ----
    request,                \* what the client sent: see Requests
    response,               \* the (body, status) the view function returned
    responses,              \* number of return statements executed
    invoked,                \* TRUE once line 234 has called fix_malformed_json
    apipc,                  \* "idle", "start", "call", "done"
    \* ---- a second, concurrent call: its own frame of locals ----
    other

fixvars == <<malformed_json_string, original_string, current_string, iter, strips,
             attempts, data, fixpc, outcome, fixed, source, pass, first_fixed>>
sqlvars == <<records, mode, batch_size, i, parts, sqlpc, script>>
apivars == <<request, response, responses, invoked, apipc>>
vars == <<fixvars, sqlvars, apivars, other>>

----------------------------------------------------------------------------
(* Characters *)

Q  == "\""
BS == "\\"
SQ == "'"
NL == "\n"
TAB == "\t"
SP == " "

Whitespace == {SP, NL, TAB, "\r"}
Digits == {"0", "1", "2", "3", "4", "5", "6", "7", "8", "9"}

DigitVal(c) ==
    CASE c = "0" -> 0 [] c = "1" -> 1 [] c = "2" -> 2 [] c = "3" -> 3 [] c = "4" -> 4
      [] c = "5" -> 5 [] c = "6" -> 6 [] c = "7" -> 7 [] c = "8" -> 8 [] c = "9" -> 9

DigitChar(d) ==
    CASE d = 0 -> "0" [] d = 1 -> "1" [] d = 2 -> "2" [] d = 3 -> "3" [] d = 4 -> "4"
      [] d = 5 -> "5" [] d = 6 -> "6" [] d = 7 -> "7" [] d = 8 -> "8" [] d = 9 -> "9"

\* str(n) for a Python int
RECURSIVE NatText(_)
NatText(n) == IF n < 10 THEN <<DigitChar(n)>>
              ELSE NatText(n \div 10) \o <<DigitChar(n % 10)>>

IntText(n) == IF n < 0 THEN <<"-">> \o NatText(-n) ELSE NatText(n)

\* the concatenation of the texts ss[a], ..., ss[b], by halves
RECURSIVE FlattenRange(_, _, _)
FlattenRange(ss, a, b) ==
    IF a > b THEN <<>>
    ELSE IF a = b THEN ss[a]
    ELSE LET m == (a + b) \div 2
         IN  FlattenRange(ss, a, m) \o FlattenRange(ss, m + 1, b)

\* "".join(ss)
Flatten(ss) == FlattenRange(ss, 1, Len(ss))

\* s[a..b] with Python's clipping; positions are 1-based here
Slice(s, a, b) == IF a > b THEN <<>> ELSE SubSeq(s, a, b)

\* str.startswith / str.endswith for one character
StartsWith(s, c) == Len(s) >= 1 /\ s[1] = c
EndsWith(s, c) == Len(s) >= 1 /\ s[Len(s)] = c

\* whether the text p occurs in s at position k
MatchAt(s, k, p) ==
    k >= 1 /\ k + Len(p) - 1 <= Len(s) /\ SubSeq(s, k, k + Len(p) - 1) = p

\* the number of consecutive characters c that end at position k
RECURSIVE RunBack(_, _, _)
RunBack(s, k, c) == IF k >= 1 /\ s[k] = c THEN 1 + RunBack(s, k - 1, c) ELSE 0

\* whether the scan of str.replace, going left to right over non-overlapping
\* occurrences, finds an occurrence of old starting at k (old of 1 or 2
\* characters: an occurrence of "cc" starts at an even offset in its run of c)
ReplaceHit(s, k, old) ==
    /\ MatchAt(s, k, old)
    /\ (Len(old) = 2 /\ old[1] = old[2]) => RunBack(s, k - 1, old[1]) % 2 = 0

\* str.replace(old, new) for old of 1 or 2 characters
Replace(s, old, new) ==
    Flatten([k \in 1..Len(s) |->
        IF ReplaceHit(s, k, old) THEN new
        ELSE IF Len(old) = 2 /\ ReplaceHit(s, k - 1, old) THEN <<>>
        ELSE <<s[k]>>])

\* str.strip(): drop leading and trailing whitespace
RECURSIVE LStrip(_)
LStrip(s) == IF s # <<>> /\ Head(s) \in Whitespace THEN LStrip(Tail(s)) ELSE s
RECURSIVE RStrip(_)
RStrip(s) == IF s # <<>> /\ s[Len(s)] \in Whitespace
             THEN RStrip(SubSeq(s, 1, Len(s) - 1)) ELSE s
Strip(s) == RStrip(LStrip(s))

----------------------------------------------------------------------------
(* JSON values *)

Num(n) == [t |-> "num", n |-> n]
Str(s) == [t |-> "str", s |-> s]
Arr(a) == [t |-> "arr", a |-> a]
Obj(o) == [t |-> "obj", o |-> o]     \* o: sequence of <<key text, value>>
Lit(l) == [t |-> "lit", l |-> l]     \* "null", "true", "false"

IsStr(v) == v.t = "str"

----------------------------------------------------------------------------
(* json.loads: the text is cut into tokens (strings with the escapes      *)
(* \" \\ \/ \n \t, integers, the three literals, punctuation), and the     *)
(* tokens are read by recursive descent.  Floats, exponents, \b \f \r and  *)
(* \uXXXX escapes are outside the texts modelled.                          *)

Fail == [ok |-> FALSE]
Ok(v, k) == [ok |-> TRUE, val |-> v, next |-> k]

Punctuation == {"[", "]", "{", "}", ":", ","}

\* the positions of the quotes that open or close a string: those
\* preceded by an even number of backslashes
BareQuotes(s) ==
    SelectSeq([k \in 1..Len(s) |-> k],
              LAMBDA k : s[k] = Q /\ RunBack(s, k - 1, BS) % 2 = 0)

\* the number of bare quotes at positions < k
QuotesBefore(bq, k) == Cardinality({j \in 1..Len(bq) : bq[j] < k})

\* a backslash that starts an escape sequence inside a string
EscapeStart(s, k) == k >= 1 /\ s[k] = BS /\ RunBack(s, k - 1, BS) % 2 = 0

Skip == [k |-> "skip"]
Bad == [k |-> "bad"]
Chr(c) == [k |-> "chr", c |-> c]

\* the character position k contributes to the content of its string
StringItem(s, k) ==
    IF EscapeStart(s, k) THEN Skip
    ELSE IF EscapeStart(s, k - 1) THEN
        (CASE s[k] \in {Q, BS, "/"} -> Chr(s[k])
           [] s[k] = "n" -> Chr(NL)
           [] s[k] = "t" -> Chr(TAB)
           [] OTHER -> Bad)
    ELSE IF s[k] \in {NL, TAB, "\r"} THEN Bad     \* strict: no control characters
    ELSE Chr(s[k])

\* the content of the string between the quotes at a and b
StringToken(s, a, b) ==
    LET items == [k \in 1..(b - a - 1) |-> StringItem(s, a + k)]
        kept == SelectSeq(items, LAMBDA x : x # Skip)
    IN  IF \E k \in 1..Len(kept) : kept[k] = Bad THEN Bad
        ELSE [k |-> "val", v |-> Str([k \in 1..Len(kept) |-> kept[k].c])]

IsWordChar(c) == c \notin Whitespace /\ c \notin Punctuation /\ c # Q

\* the last position of the run of word characters that starts at k
RECURSIVE WordEnd(_, _)
WordEnd(s, k) ==
    IF k + 1 <= Len(s) /\ IsWordChar(s[k + 1]) THEN WordEnd(s, k + 1) ELSE k

RECURSIVE DigitsValue(_, _)
DigitsValue(w, k) ==
    IF k = 0 THEN 0 ELSE DigitsValue(w, k - 1) * 10 + DigitVal(w[k])

\* a word is a literal or an integer -?(0|[1-9][0-9]*); anything else is an error
WordToken(w) ==
    LET neg == w[1] = "-"
        d == IF neg THEN Tail(w) ELSE w
    IN  IF w = <<"n", "u", "l", "l">> THEN [k |-> "val", v |-> Lit("null")]
        ELSE IF w = <<"t", "r", "u", "e">> THEN [k |-> "val", v |-> Lit("true")]
        ELSE IF w = <<"f", "a", "l", "s", "e">> THEN [k |-> "val", v |-> Lit("false")]
        ELSE IF /\ d # <<>>
                /\ \A j \in 1..Len(d) : d[j] \in Digits
                /\ (Len(d) > 1 => d[1] # "0")
             THEN [k |-> "val", v |-> Num(IF neg THEN 0 - DigitsValue(d, Len(d))
                                          ELSE DigitsValue(d, Len(d)))]
        ELSE Bad

\* what position k contributes to the token sequence
TokenAt(s, bq, k) ==
    LET before == QuotesBefore(bq, k)
    IN  IF before % 2 = 1 THEN Skip                \* inside a string, or its closing quote
        ELSE IF s[k] = Q THEN
            IF before + 2 > Len(bq) THEN Bad        \* unterminated string
            ELSE StringToken(s, k, bq[before + 2])
        ELSE IF s[k] \in Whitespace THEN Skip
        ELSE IF s[k] \in Punctuation THEN [k |-> "p", c |-> s[k]]
        ELSE IF k > 1 /\ IsWordChar(s[k - 1]) /\ QuotesBefore(bq, k - 1) % 2 = 0
             THEN Skip                               \* inside a word
        ELSE WordToken(SubSeq(s, k, WordEnd(s, k)))

Tokens(s) ==
    LET bq == BareQuotes(s)
    IN  SelectSeq([k \in 1..Len(s) |-> TokenAt(s, bq, k)], LAMBDA x : x # Skip)

IsPunct(ts, k, c) == k <= Len(ts) /\ ts[k] = [k |-> "p", c |-> c]

\* dict assignment: a repeated key keeps its place and takes the new value
SetKey(o, key, v) ==
    IF \E j \in 1..Len(o) : o[j][1] = key
    THEN [j \in 1..Len(o) |-> IF o[j][1] = key THEN <<key, v>> ELSE o[j]]
    ELSE Append(o, <<key, v>>)

RECURSIVE ScanValue(_, _), ScanElems(_, _, _), ScanPairs(_, _, _)

\* the value that starts at token k
ScanValue(ts, k) ==
    IF k > Len(ts) THEN Fail
    ELSE IF ts[k].k = "val" THEN Ok(ts[k].v, k + 1)
    ELSE IF IsPunct(ts, k, "[") THEN
        IF IsPunct(ts, k + 1, "]") THEN Ok(Arr(<<>>), k + 2)
        ELSE ScanElems(ts, k + 1, <<>>)
    ELSE IF IsPunct(ts, k, "{") THEN
        IF IsPunct(ts, k + 1, "}") THEN Ok(Obj(<<>>), k + 2)
        ELSE ScanPairs(ts, k + 1, <<>>)
    ELSE Fail

\* k is at the start of an element; acc holds the elements read so far
ScanElems(ts, k, acc) ==
    LET r == ScanValue(ts, k)
    IN  IF ~r.ok THEN Fail
        ELSE IF IsPunct(ts, r.next, "]") THEN Ok(Arr(Append(acc, r.val)), r.next + 1)
        ELSE IF IsPunct(ts, r.next, ",") THEN ScanElems(ts, r.next + 1, Append(acc, r.val))
        ELSE Fail

\* k is at the start of a key; acc holds the pairs read so far
ScanPairs(ts, k, acc) ==
    IF ~(k <= Len(ts) /\ ts[k].k = "val" /\ IsStr(ts[k].v) /\ IsPunct(ts, k + 1, ":"))
    THEN Fail
    ELSE LET r == ScanValue(ts, k + 2)
         IN  IF ~r.ok THEN Fail
             ELSE LET o == SetKey(acc, ts[k].v.s, r.val)
                  IN  IF IsPunct(ts, r.next, "}") THEN Ok(Obj(o), r.next + 1)
                      ELSE IF IsPunct(ts, r.next, ",") THEN ScanPairs(ts, r.next + 1, o)
                      ELSE Fail

\* json.loads(s): the whole text is one value between optional whitespace;
\* ok = FALSE stands for JSONDecodeError
Loads(s) ==
    LET ts == Tokens(s)
    IN  IF \E k \in 1..Len(ts) : ts[k] = Bad THEN Fail
        ELSE LET r == ScanValue(ts, 1)
             IN  IF r.ok /\ r.next = Len(ts) + 1 THEN Ok(r.val, r.next) ELSE Fail

----------------------------------------------------------------------------
(* json.dumps(value, indent=2, ensure_ascii=False) *)

EscapeText(s) ==
    Flatten([k \in 1..Len(s) |->
        CASE s[k] = Q -> <<BS, Q>>
          [] s[k] = BS -> <<BS, BS>>
          [] s[k] = NL -> <<BS, "n">>
          [] s[k] = TAB -> <<BS, "t">>
          [] OTHER -> <<s[k]>>])

QuoteText(s) == <<Q>> \o EscapeText(s) \o <<Q>>

RECURSIVE Spaces(_)
Spaces(n) == IF n = 0 THEN <<>> ELSE <<SP>> \o Spaces(n - 1)

IndentWidth == 2

RECURSIVE DumpsAt(_, _), DumpItems(_, _, _), DumpPairs(_, _, _)

\* the text of v when it sits at nesting depth d
DumpsAt(v, d) ==
    CASE v.t = "num" -> IntText(v.n)
      [] v.t = "str" -> QuoteText(v.s)
      [] v.t = "lit" -> (CASE v.l = "null" -> <<"n", "u", "l", "l">>
                           [] v.l = "true" -> <<"t", "r", "u", "e">>
                           [] v.l = "false" -> <<"f", "a", "l", "s", "e">>)
      [] v.t = "arr" ->
            IF v.a = <<>> THEN <<"[", "]">>
            ELSE <<"[">> \o DumpItems(v.a, 1, d + 1)
                 \o <<NL>> \o Spaces(IndentWidth * d) \o <<"]">>
      [] v.t = "obj" ->
            IF v.o = <<>> THEN <<"{", "}">>
            ELSE <<"{">> \o DumpPairs(v.o, 1, d + 1)
                 \o <<NL>> \o Spaces(IndentWidth * d) \o <<"}">>

DumpItems(a, k, d) ==
    IF k > Len(a) THEN <<>>
    ELSE <<NL>> \o Spaces(IndentWidth * d) \o DumpsAt(a[k], d)
         \o (IF k < Len(a) THEN <<",">> ELSE <<>>) \o DumpItems(a, k + 1, d)

DumpPairs(o, k, d) ==
    IF k > Len(o) THEN <<>>
    ELSE <<NL>> \o Spaces(IndentWidth * d) \o QuoteText(o[k][1]) \o <<":", SP>>
         \o DumpsAt(o[k][2], d)
         \o (IF k < Len(o) THEN <<",">> ELSE <<>>) \o DumpPairs(o, k + 1, d)

Dumps(v) == DumpsAt(v, 0)

\* json.dumps(value) with the default separators: one line, ", " and ": "
RECURSIVE DumpsLine(_), LineItems(_, _), LinePairs(_, _)

DumpsLine(v) ==
    CASE v.t = "arr" -> <<"[">> \o LineItems(v.a, 1) \o <<"]">>
      [] v.t = "obj" -> <<"{">> \o LinePairs(v.o, 1) \o <<"}">>
      [] OTHER -> DumpsAt(v, 0)

LineItems(a, k) ==
    IF k > Len(a) THEN <<>>
    ELSE DumpsLine(a[k]) \o (IF k < Len(a) THEN <<",", SP>> ELSE <<>>)
         \o LineItems(a, k + 1)

LinePairs(o, k) ==
    IF k > Len(o) THEN <<>>
    ELSE QuoteText(o[k][1]) \o <<":", SP>> \o DumpsLine(o[k][2])
         \o (IF k < Len(o) THEN <<",", SP>> ELSE <<>>) \o LinePairs(o, k + 1)

----------------------------------------------------------------------------
(* The inputs of fix_malformed_json *)

\* one layer of quote+escape encoding: the inverse of app.py:45
EncodeLayer(s) ==
    <<Q>> \o Replace(Replace(s, <<BS>>, <<BS, BS>>), <<Q>>, <<BS, Q>>) \o <<Q>>

RECURSIVE Encode(_, _)
Encode(s, k) == IF k = 0 THEN s ELSE EncodeLayer(Encode(s, k - 1))

MaxLayers == 4

\* an argument that is not a str (None, a number, bytes): no text holds this token
NotAString == <<"<not a str>">>

JsonValues ==
    { Num(1), Num(-20), Lit("null"), Lit("true"), Lit("false"),
      Arr(<<>>), Arr(<<Num(1), Num(2)>>),
      Arr(<<Str(<<"a", Q, "b">>)>>), Arr(<<Str(<<"a", BS>>)>>),
      Obj(<<>>), Obj(<< <<<<"k">>, Str(<<"v">>)>>, <<<<"n">>, Arr(<<Num(3)>>)>> >>),
      Str(<<>>), Str(<<"a">>), Str(<<"1">>), Str(<<"[", "1", "]">>),
      Str(<<"a", Q>>) }

NonStringValues == {v \in JsonValues : ~IsStr(v)}

\* the JSON texts of v: the indented and the one-line serialization
TextsOf(v) == {Dumps(v), DumpsLine(v)}

ValidTexts == UNION {TextsOf(v) : v \in JsonValues}

NoData == [t |-> "none"]
NoText == <<>>

Case(kind, value, layers, input) ==
    [kind |-> kind, value |-> value, layers |-> layers, input |-> input]

\* valid JSON under 0..MaxLayers layers of encoding
EncodedOf ==
    UNION {{Case("encoded", v, k, Encode(x, k)) : x \in TextsOf(v), k \in 0..MaxLayers} :
              v \in JsonValues}

\* damaged texts: an encoded text that lost its first or its last character
DamagedCases ==
    {Case("damaged", c.value, c.layers, Tail(c.input)) : c \in EncodedOf}
    \cup {Case("damaged", c.value, c.layers, SubSeq(c.input, 1, Len(c.input) - 1)) :
            c \in EncodedOf}

\* once-encoded texts with whitespace around them, which line 34 strips
PaddedCases ==
    {Case("padded", c.value, c.layers, <<SP>> \o c.input \o <<NL>>) :
        c \in {d \in EncodedOf : d.layers = 1}}

MaxQuotes == 6

\* k quote characters, the letter x, k quote characters: text that stays
\* quote-wrapped, and no JSON, for k - 1 strips
QuotedCases ==
    {Case("quoted", NoData, k, [j \in 1..k |-> Q] \o <<"x">> \o [j \in 1..k |-> Q]) :
        k \in 1..MaxQuotes}

FixCases ==
    EncodedOf \cup DamagedCases \cup PaddedCases \cup QuotedCases
    \cup {Case("notastring", NoData, 0, NotAString)}

----------------------------------------------------------------------------
(* fix_malformed_json, app.py:14-80 *)

\* a slip in line 39: one iteration more
max_iterations_plus == 5 + 1

max_iterations == 5

\* app.py:43
IsWrapped(s) == StartsWith(s, Q) /\ EndsWith(s, Q)

\* app.py:45: s[1:-1].replace('\\"', '"').replace('\\\\', '\\')
Unwrap(s) ==
    Replace(Replace(Slice(s, 2, Len(s) - 1), <<BS, Q>>, <<Q>>), <<BS, BS>>, <<BS>>)

\* app.py:43-45: the string the iteration goes on to parse
Stripped(s) == IF IsWrapped(s) THEN Unwrap(s) ELSE s

\* app.py:50-56: parse, and parse again when the result is a str;
\* ok = FALSE when either json.loads raises JSONDecodeError
ParseAttempt(s) ==
    LET first_parse == Loads(s)
    IN  IF ~first_parse.ok THEN Fail
        ELSE IF IsStr(first_parse.val) THEN Loads(first_parse.val.s)
        ELSE first_parse

FixIdle ==
    /\ malformed_json_string = NoText
    /\ original_string = NoText
    /\ current_string = NoText
    /\ iter = 0
    /\ strips = 0
    /\ attempts = <<>>
    /\ data = NoData
    /\ fixpc = "idle"
    /\ outcome = "none"
    /\ fixed = NoText
    /\ source = Case("none", NoData, 0, NoText)
    /\ pass = 1
    /\ first_fixed = NoText

FixInit ==
    /\ source \in FixCases
    /\ malformed_json_string = source.input
    /\ pass = 1
    /\ first_fixed = NoText
    /\ original_string = NoText
    /\ current_string = NoText
    /\ iter = 0
    /\ strips = 0
    /\ attempts = <<>>
    /\ data = NoData
    /\ fixpc = "start"
    /\ outcome = "none"
    /\ fixed = NoText

\* app.py:77-80: the two except clauses
Raise(kind) ==
    /\ outcome' = kind
    /\ fixpc' = "done"

\* app.py:34-38; on a non-str argument .strip() raises AttributeError,
\* which line 79 turns into "Error processing JSON"
FixBegin ==
    /\ fixpc = "start"
    /\ IF malformed_json_string = NotAString
       THEN /\ Raise("processing")
            /\ UNCHANGED <<original_string, current_string>>
       ELSE /\ original_string' = Strip(malformed_json_string)
            /\ current_string' = Strip(malformed_json_string)
            /\ fixpc' = "loop"
            /\ UNCHANGED outcome
    /\ UNCHANGED <<malformed_json_string, iter, strips, attempts, data, fixed>>
    /\ UNCHANGED <<source, pass, first_fixed>>
    /\ UNCHANGED <<sqlvars, apivars, other>>

\* app.py:41-69: one iteration of the for loop
FixIterate ==
    /\ fixpc = "loop"
    /\ iter < max_iterations
    /\ LET cur == Stripped(current_string)
           r == ParseAttempt(cur)
       IN  /\ current_string' = cur
           /\ strips' = IF IsWrapped(current_string) THEN strips + 1 ELSE strips
           /\ attempts' = Append(attempts, cur)
           /\ IF r.ok
              THEN \* line 59: break
                   /\ data' = r.val
                   /\ fixpc' = "dumps"
                   /\ UNCHANGED <<iter, outcome>>
              ELSE IF cur = original_string
              THEN \* lines 63-66: direct parse as last resort
                   IF Loads(cur).ok
                   THEN /\ data' = Loads(cur).val
                        /\ fixpc' = "dumps"
                        /\ UNCHANGED <<iter, outcome>>
                   ELSE /\ Raise("decode")
                        /\ UNCHANGED <<iter, data>>
              ELSE \* line 69: continue
                   /\ iter' = iter + 1
                   /\ UNCHANGED <<data, fixpc, outcome>>
    /\ UNCHANGED <<malformed_json_string, original_string, fixed>>
    /\ UNCHANGED <<source, pass, first_fixed>>
    /\ UNCHANGED <<sqlvars, apivars, other>>

\* a slip in lines 70-72: the else branch gives up without the final parse
FixExhaustedGivesUp ==
    /\ fixpc = "loop"
    /\ iter = max_iterations
    /\ Raise("decode")
    /\ UNCHANGED <<malformed_json_string, original_string, current_string, iter,
                   strips, attempts, data, fixed>>
    /\ UNCHANGED <<source, pass, first_fixed>>
    /\ UNCHANGED <<sqlvars, apivars, other>>

\* app.py:70-72: the for loop's else branch, after max_iterations iterations
FixExhausted ==
    /\ fixpc = "loop"
    /\ iter = max_iterations
    /\ IF Loads(current_string).ok
       THEN /\ data' = Loads(current_string).val
            /\ fixpc' = "dumps"
            /\ UNCHANGED outcome
       ELSE /\ Raise("decode")
            /\ UNCHANGED data
    /\ UNCHANGED <<malformed_json_string, original_string, current_string, iter,
                   strips, attempts, fixed>>
    /\ UNCHANGED <<source, pass, first_fixed>>
    /\ UNCHANGED <<sqlvars, apivars, other>>

\* app.py:75
FixReturn ==
    /\ fixpc = "dumps"
    /\ fixed' = Dumps(data)
    /\ outcome' = "returned"
    /\ fixpc' = "done"
    /\ UNCHANGED <<malformed_json_string, original_string, current_string, iter,
                   strips, attempts, data>>
    /\ UNCHANGED <<source, pass, first_fixed>>
    /\ UNCHANGED <<sqlvars, apivars, other>>

\* the caller hands the text a call returned to a second call
FixAgain ==
    /\ apipc = "idle"
    /\ fixpc = "done"
    /\ outcome = "returned"
    /\ pass = 1
    /\ pass' = 2
    /\ first_fixed' = fixed
    /\ malformed_json_string' = fixed
    /\ original_string' = NoText
    /\ current_string' = NoText
    /\ iter' = 0
    /\ strips' = 0
    /\ attempts' = <<>>
    /\ data' = NoData
    /\ fixpc' = "start"
    /\ outcome' = "none"
    /\ fixed' = NoText
    /\ UNCHANGED source
    /\ UNCHANGED <<sqlvars, apivars, other>>

FixNext == FixBegin \/ FixIterate \/ FixExhausted \/ FixReturn \/ FixAgain

----------------------------------------------------------------------------
(* Python values of a record: None is Lit("null"), a str is Str(text), an  *)
(* int is Num(n), a float is Flt(w, f) with repr w.f                       *)

PyNone == Lit("null")
Flt(w, f) == [t |-> "flt", w |-> w, f |-> f]

\* str(value)
PyStr(v) ==
    CASE v.t = "str" -> v.s
      [] v.t = "num" -> IntText(v.n)
      [] v.t = "flt" -> IntText(v.w) \o <<".">> \o v.f
      [] v.t = "lit" -> (CASE v.l = "null" -> <<"N", "o", "n", "e">>
                           [] v.l = "true" -> <<"T", "r", "u", "e">>
                           [] v.l = "false" -> <<"F", "a", "l", "s", "e">>)

\* rec.get(key): None for an absent key
Get(rec, key) == IF key \in DOMAIN rec THEN rec[key] ELSE PyNone

\* Python truthiness of a value: None, "", 0, 0.0 and False are falsy
Truthy(v) ==
    CASE v.t = "str" -> v.s # <<>>
      [] v.t = "num" -> v.n # 0
      [] v.t = "flt" -> ~(v.w = 0 /\ v.f \in {<<"0">>})
      [] v.t = "lit" -> v.l = "true"

----------------------------------------------------------------------------
(* generate_sql, app.py:83-181 *)

NULL == <<"N", "U", "L", "L">>

\* a slip in line 100: the single quotes are not doubled
sql_str_undoubled(value) ==
    IF value = PyNone THEN NULL ELSE <<SQ>> \o PyStr(value) \o <<SQ>>

\* app.py:96-100
sql_str(value) ==
    IF value = PyNone THEN NULL
    ELSE <<SQ>> \o Replace(PyStr(value), <<SQ>>, <<SQ, SQ>>) \o <<SQ>>

\* app.py:102-106
sql_num(value) ==
    IF value = PyNone THEN NULL ELSE PyStr(value)

\* a slip in line 110: the value is compared without strip()
map_region_unstripped(value) ==
    IF value = PyNone \/ PyStr(value) = <<SQ>> THEN NULL
    ELSE <<SQ>> \o Replace(PyStr(value), <<SQ>>, <<SQ, SQ>>) \o <<SQ>>

\* app.py:108-112
map_region(value) ==
    IF value = PyNone \/ Strip(PyStr(value)) = <<SQ>> THEN NULL ELSE sql_str(value)

\* a slip in line 116: the value is compared without strip()
map_age_group_unstripped(value) ==
    IF value = PyNone \/ PyStr(value) = <<>> THEN NULL
    ELSE <<SQ>> \o Replace(PyStr(value), <<SQ>>, <<SQ, SQ>>) \o <<SQ>>

\* app.py:114-118
map_age_group(value) ==
    IF value = PyNone \/ Strip(PyStr(value)) = <<>> THEN NULL ELSE sql_str(value)

CrashDateLen == 10

\* app.py:120-127; str(...)[:10] raises nothing for these values
crash_date(full_date) ==
    IF ~Truthy(full_date) THEN NULL
    ELSE sql_str(Str(Slice(PyStr(full_date), 1,
                           IF Len(PyStr(full_date)) < CrashDateLen
                           THEN Len(PyStr(full_date)) ELSE CrashDateLen)))

GeomOpen == <<"S", "T", "_", "S", "e", "t", "S", "R", "I", "D", "(", "S", "T", "_", "M", "a", "k", "e", "P", "o", "i", "n", "t", "(">>
GeomSep == <<",", SP>>
GeomClose == <<")", ",", " ", "4", "3", "2", "6", ")">>

\* a slip in line 132: latitude first
GeomTextLatFirst(lng, lat) == GeomOpen \o lat \o GeomSep \o lng \o GeomClose

\* app.py:132
GeomText(lng, lat) == GeomOpen \o lng \o GeomSep \o lat \o GeomClose

Washington == <<"'", "W", "a", "s", "h", "i", "n", "g", "t", "o", "n", "'">>

\* a slip in line 131: the longitude is read from the state-plane coordinate
row_values_plane(rec, m) ==
    LET lat == sql_num(Get(rec, "Latitude"))
        lng == sql_num(Get(rec, "CrashStatePlaneX"))
        geom == GeomText(lng, lat)
    IN  << sql_str(Get(rec, "ColliRptNum")),
           sql_str(Get(rec, "Jurisdiction")),
           Washington,
           map_region(Get(rec, "RegionName")),
           sql_str(Get(rec, "CountyName")),
           sql_str(Get(rec, "CityName")),
           sql_str(Get(rec, "FullDate")),
           crash_date(Get(rec, "FullDate")),
           sql_str(Get(rec, "FullTime")),
           sql_str(Get(rec, "MostSevereInjuryType")),
           map_age_group(Get(rec, "AgeGroup")),
           sql_num(Get(rec, "InvolvedPersons")),
           lat,
           lng,
           sql_str(m),
           geom >>

\* app.py:129-150: the sixteen values of a row, in column order
row_values(rec, m) ==
    LET lat == sql_num(Get(rec, "Latitude"))
        lng == sql_num(Get(rec, "Longitude"))
        geom == GeomText(lng, lat)
    IN  << sql_str(Get(rec, "ColliRptNum")),
           sql_str(Get(rec, "Jurisdiction")),
           Washington,
           map_region(Get(rec, "RegionName")),
           sql_str(Get(rec, "CountyName")),
           sql_str(Get(rec, "CityName")),
           sql_str(Get(rec, "FullDate")),
           crash_date(Get(rec, "FullDate")),
           sql_str(Get(rec, "FullTime")),
           sql_str(Get(rec, "MostSevereInjuryType")),
           map_age_group(Get(rec, "AgeGroup")),
           sql_num(Get(rec, "InvolvedPersons")),
           lat,
           lng,
           sql_str(m),
           geom >>

\* app.py:152-157: the column list, as the four lines the literal is written in
columns ==
    << << "ColliRptNum", "Jurisdiction", "StateOrProvinceName", "RegionName" >>,
       << "CountyName", "CityName", "FullDate", "CrashDate", "FullTime" >>,
       << "MostSevereInjuryType", "AgeGroup", "InvolvedPersons" >>,
       << "Latitude", "Longitude", "Mode", "geom" >> >>

\* the column names in order
ColumnNames(cols) == Flatten(cols)

\* ", ".join / ",\n".join: the texts of ts with sep between them
RECURSIVE Join(_, _)
Join(ts, sep) ==
    IF ts = <<>> THEN <<>>
    ELSE IF Len(ts) = 1 THEN ts[1]
    ELSE ts[1] \o sep \o Join(Tail(ts), sep)

\* app.py:134-149: the row as text
RowText(fields) == <<SP, SP, "(">> \o Join(fields, <<",", SP>>) \o <<")">>

\* app.py:153-156: each name in double quotes, each line indented by two spaces
ColumnsText(cols) ==
    Join([l \in 1..Len(cols) |->
            <<SP, SP>> \o Join([k \in 1..Len(cols[l]) |-> <<Q, cols[l][k], Q>>],
                               <<",", SP>>)],
         <<",", NL>>)

InsertHead == "INSERT INTO crashdata ("
ValuesHead == ") VALUES"
ConflictClause == "ON CONFLICT (\"ColliRptNum\") DO NOTHING;"

\* app.py:172-176
StmtText(st) ==
    <<InsertHead, NL>> \o ColumnsText(st.columns) \o <<NL, ValuesHead, NL>>
    \o Join([k \in 1..Len(st.rows) |-> RowText(st.rows[k])], <<",", NL>>)
    \o <<NL, st.conflict, NL>>

\* app.py:160-165
HeaderText(m, generated_date, n) ==
    <<"-- CrashMap Data Import", NL, "-- Mode: ">> \o PyStr(m)
    \o <<NL, "-- Generated: ">> \o generated_date
    \o <<NL, "-- Records: ">> \o IntText(n) \o <<NL, NL>>

\* the parts of the script: a piece of text, or a statement with its rows
TextPart(x) == [kind |-> "text", text |-> x]
StmtPart(rows) == [kind |-> "stmt", columns |-> columns, rows |-> rows,
                   conflict |-> ConflictClause]

PartText(p) == IF p.kind = "stmt" THEN StmtText(p) ELSE p.text

\* app.py:181: "".join(parts)
JoinParts(ps) == Flatten([k \in 1..Len(ps) |-> PartText(ps[k])])

\* a slip in line 170: the slice ends one record early
BatchShort(recs, k, b) ==
    Slice(recs, k + 1, (IF k + b < Len(recs) THEN k + b ELSE Len(recs)) - 1)

\* app.py:170: records[i : i + batch_size], i counted from 0
Batch(recs, k, b) ==
    Slice(recs, k + 1, IF k + b < Len(recs) THEN k + b ELSE Len(recs))

----------------------------------------------------------------------------
(* The inputs of generate_sql *)

MappedKeys ==
    << "ColliRptNum", "Jurisdiction", "RegionName", "CountyName", "CityName",
       "FullDate", "FullTime", "MostSevereInjuryType", "AgeGroup",
       "InvolvedPersons", "Latitude", "Longitude" >>

UnmappedKeys == {"CrashStatePlaneX", "CrashStatePlaneY"}

\* the values a field takes
FieldValues ==
    << PyNone, Str(<<SQ>>), Str(<<SP, SQ>>), Str(<<>>), Str(<<SP>>),
       Str(<<"O", "'", "B">>), Str(<<"a", "b">>), Num(0),
       Flt(47, <<"0">>), Flt(-122, <<"0">>),
       Str(<<"2", "0", "2", "5", "-", "0", "2", "-", "2", "'", "T", "1">>), Str(<<SQ, SQ>>), Num(7) >>

\* values of the state-plane keys; "#" occurs in no other value
PlaneValues == << Str(<<"#", "1">>), Str(<<"#", "2">>) >>

NumFieldValues == Len(FieldValues)

\* the record whose j-th mapped key holds FieldValues[base + j] (cyclically)
PoolRecord(base) ==
    [k \in {MappedKeys[j] : j \in 1..Len(MappedKeys)} \cup UnmappedKeys |->
        IF k \in UnmappedKeys
        THEN PlaneValues[(base % Len(PlaneValues)) + 1]
        ELSE LET j == CHOOSE x \in 1..Len(MappedKeys) : MappedKeys[x] = k
             IN  FieldValues[((base + j) % NumFieldValues) + 1]]

\* a record with no mapped key at all
BareRecord == [k \in UnmappedKeys |-> PlaneValues[1]]

RecordPool == [b \in 1..(NumFieldValues + 1) |->
                  IF b <= NumFieldValues THEN PoolRecord(b) ELSE BareRecord]

MaxRecords == 7
MaxBatch == 3

\* the list of n records taken from the pool at start, start + stride, ...
RecordList(n, start, stride) ==
    [k \in 1..n |-> RecordPool[((start + (k - 1) * stride) % Len(RecordPool)) + 1]]

RecordLists ==
    {RecordList(n, start, stride) :
        n \in 0..MaxRecords, start \in 0..(Len(RecordPool) - 1), stride \in {0, 1}}

Modes == {Str(<<"P", "e", "d">>), Str(<<"B", SQ, "k">>), PyNone, Str(<<"x", NL, "y">>)}

\* datetime.utcnow().strftime("%Y-%m-%d"), app.py:159
Dates == {<<"2", "0", "2", "6", "-", "1", "1", "-", "0", "5">>, <<"2", "0", "2", "6", "-", "1", "1", "-", "0", "6">>}

----------------------------------------------------------------------------

SqlIdle ==
    /\ records = <<>>
    /\ mode = PyNone
    /\ batch_size = 1
    /\ i = 0
    /\ parts = <<>>
    /\ sqlpc = "idle"
    /\ script = NoText

SqlInit ==
    /\ records \in RecordLists
    /\ mode \in Modes
    /\ batch_size \in 1..MaxBatch
    /\ i = 0
    /\ parts = <<>>
    /\ sqlpc = "start"
    /\ script = NoText

\* app.py:159-167
SqlBegin ==
    /\ sqlpc = "start"
    /\ \E generated_date \in Dates :
          parts' = <<TextPart(HeaderText(mode, generated_date, Len(records)))>>
    /\ i' = 0
    /\ sqlpc' = "loop"
    /\ UNCHANGED <<records, mode, batch_size, script>>
    /\ UNCHANGED <<fixvars, apivars, other>>

\* app.py:169-179: one iteration of the batch loop
SqlBatch ==
    /\ sqlpc = "loop"
    /\ i < Len(records)
    /\ LET batch == Batch(records, i, batch_size)
           stmt == StmtPart([k \in 1..Len(batch) |-> row_values(batch[k], mode)])
       IN  parts' = IF i + batch_size < Len(records)
                    THEN parts \o <<stmt, TextPart(<<NL>>)>>
                    ELSE Append(parts, stmt)
    /\ i' = i + batch_size
    /\ UNCHANGED <<records, mode, batch_size, sqlpc, script>>
    /\ UNCHANGED <<fixvars, apivars, other>>

\* app.py:181
SqlReturn ==
    /\ sqlpc = "loop"
    /\ i >= Len(records)
    /\ script' = JoinParts(parts)
    /\ sqlpc' = "done"
    /\ UNCHANGED <<records, mode, batch_size, i, parts>>
    /\ UNCHANGED <<fixvars, apivars, other>>

SqlNext == SqlBegin \/ SqlBatch \/ SqlReturn

----------------------------------------------------------------------------
(* The endpoint /api/fix-json: fix_json, app.py:203-241 *)

\* the key the view function reads, kept as one token of text
FieldName == <<"malformed_json">>

\* what a client can send: no JSON body at all, a body that is not JSON, or
\* a JSON body with its parsed value
NoBody == [kind |-> "absent"]
BadBody == [kind |-> "malformed"]
JsonBody(v) == [kind |-> "json", value |-> v]

\* the texts a client puts in the field
ApiTexts == {c.input : c \in {d \in FixCases : d.kind # "notastring" /\ d.layers <= 1}}

Requests ==
    {NoBody, BadBody}
    \cup {JsonBody(v) : v \in
            { Lit("null"), Lit("true"), Lit("false"), Num(0), Num(5), Str(<<>>),
              Str(<<"x">>), Str(<<"a", "malformed_json", "b">>),
              Arr(<<>>), Arr(<<Num(1)>>), Arr(<<Str(FieldName)>>),
              Obj(<<>>), Obj(<< <<<<"other">>, Num(1)>> >>),
              Obj(<< <<FieldName, Num(1)>> >>), Obj(<< <<FieldName, Lit("null")>> >>),
              Obj(<< <<FieldName, Arr(<<Str(<<"1">>)>>)>> >>) }}
    \cup {JsonBody(Obj(<< <<FieldName, Str(t)>> >>)) : t \in ApiTexts}

\* the result of a Python expression: a value, or an exception
Returned(v) == [raised |-> FALSE, value |-> v]
Raised(e) == [raised |-> TRUE, error |-> e]

\* app.py:218, request.get_json(): the parsed body; a body that is not JSON
\* raises werkzeug's BadRequest; without a JSON body it raises too
\* (UnsupportedMediaType, BadRequest) or, in older Flask, returns None
get_json(req) ==
    CASE req.kind = "absent" -> {Returned(PyNone), Raised("HTTPException")}
      [] req.kind = "malformed" -> {Raised("HTTPException")}
      [] req.kind = "json" -> {Returned(req.value)}

\* truth value of the parsed body: an empty list or dict is falsy as well
BodyTruthy(v) ==
    CASE v.t = "arr" -> v.a # <<>>
      [] v.t = "obj" -> v.o # <<>>
      [] OTHER -> Truthy(v)

\* app.py:220, "malformed_json" in request_data
Contains(v) ==
    CASE v.t = "obj" -> Returned(\E k \in 1..Len(v.o) : v.o[k][1] = FieldName)
      [] v.t = "arr" -> Returned(\E k \in 1..Len(v.a) : v.a[k] = Str(FieldName))
      [] v.t = "str" -> Returned(\E k \in 1..Len(v.s) : <<v.s[k]>> = FieldName)
      [] OTHER -> Raised("TypeError")

\* app.py:228, request_data["malformed_json"]
Subscript(v) ==
    IF v.t = "obj"
    THEN Returned(v.o[CHOOSE k \in 1..Len(v.o) : v.o[k][1] = FieldName][2])
    ELSE Raised("TypeError")

NoResponse == [status |-> 0, fields |-> {}, fixed_json |-> NoText]

ApiIdle ==
    /\ request = NoBody
    /\ response = NoResponse
    /\ responses = 0
    /\ invoked = FALSE
    /\ apipc = "idle"

ApiInit ==
    /\ request \in Requests
    /\ response = NoResponse
    /\ responses = 0
    /\ invoked = FALSE
    /\ apipc = "start"

\* a return statement of the view function
Respond(status, fields, text) ==
    /\ response' = [status |-> status, fields |-> fields, fixed_json |-> text]
    /\ responses' = responses + 1
    /\ apipc' = "done"

\* app.py:222-226, 231 and 238-241: the error responses
Reject(status) == Respond(status, {"error"}, NoText)

\* app.py:217-234: read the body, validate it, and call fix_malformed_json;
\* an exception that is no ValueError goes to line 240
ApiReceive ==
    /\ apipc = "start"
    /\ \E got \in get_json(request) :
          LET call(text) ==
                  /\ invoked' = TRUE
                  /\ apipc' = "call"
                  /\ malformed_json_string' = text
                  /\ source' = Case("request", NoData, 0, text)
                  /\ fixpc' = "start"
                  /\ UNCHANGED <<response, responses>>
              refuse(status) ==
                  /\ Reject(status)
                  /\ UNCHANGED <<invoked, malformed_json_string, source, fixpc>>
          IN  IF got.raised THEN refuse(500)
              ELSE IF ~BodyTruthy(got.value) THEN refuse(400)
              ELSE IF Contains(got.value).raised THEN refuse(500)
              ELSE IF ~Contains(got.value).value THEN refuse(400)
              ELSE IF Subscript(got.value).raised THEN refuse(500)
              ELSE IF ~IsStr(Subscript(got.value).value) THEN refuse(400)
              ELSE call(Subscript(got.value).value.s)
    /\ UNCHANGED <<original_string, current_string, iter, strips, attempts, data,
                   outcome, fixed, pass, first_fixed>>
    /\ UNCHANGED <<request, sqlvars, other>>

\* app.py:234-239: the call returned, or raised the ValueError of lines 78, 80
ApiRespond ==
    /\ apipc = "call"
    /\ fixpc = "done"
    /\ IF outcome = "returned"
       THEN Respond(200, {"fixed_json", "message"}, fixed)
       ELSE Reject(400)
    /\ UNCHANGED <<request, invoked>>
    /\ UNCHANGED <<fixvars, sqlvars, other>>

ApiNext ==
    ApiReceive \/ FixBegin \/ FixIterate \/ FixExhausted \/ FixReturn \/ ApiRespond

----------------------------------------------------------------------------
(* Two concurrent calls.  Every variable of fix_malformed_json and of       *)
(* generate_sql is a local of the call (the module has no mutable global), *)
(* so a second call runs on a frame of its own: the record "other".        *)

\* no second call
NoCall == [fn |-> "none", pc |-> "done"]
OtherIdle == other = NoCall

\* app.py:83: the frame of a call of generate_sql at entry
SqlFrame(recs, m, b) ==
    [fn |-> "generate_sql", records |-> recs, mode |-> m, batch_size |-> b,
     i |-> 0, parts |-> <<>>, pc |-> "start", script |-> NoText,
     generated_date |-> NoText]

\* app.py:159-167
SqlFrameBegin(f, d) ==
    [f EXCEPT !.generated_date = d,
              !.parts = <<TextPart(HeaderText(f.mode, d, Len(f.records)))>>,
              !.i = 0,
              !.pc = "loop"]

\* a slip: the loop position is a global that the calls share
SqlFrameBatchShared(f) ==
    LET batch == Batch(f.records, i, f.batch_size)
        stmt == StmtPart([k \in 1..Len(batch) |-> row_values(batch[k], f.mode)])
    IN  [f EXCEPT !.parts = IF f.i + f.batch_size < Len(f.records)
                            THEN f.parts \o <<stmt, TextPart(<<NL>>)>>
                            ELSE Append(f.parts, stmt),
                  !.i = f.i + f.batch_size]

\* app.py:169-179: one iteration of the batch loop
SqlFrameBatch(f) ==
    LET batch == Batch(f.records, f.i, f.batch_size)
        stmt == StmtPart([k \in 1..Len(batch) |-> row_values(batch[k], f.mode)])
    IN  [f EXCEPT !.parts = IF f.i + f.batch_size < Len(f.records)
                            THEN f.parts \o <<stmt, TextPart(<<NL>>)>>
                            ELSE Append(f.parts, stmt),
                  !.i = f.i + f.batch_size]

\* app.py:181
SqlFrameReturn(f) == [f EXCEPT !.script = JoinParts(f.parts), !.pc = "done"]

\* app.py:14: the frame of a call of fix_malformed_json at entry
FixFrame(arg) ==
    [fn |-> "fix_malformed_json", malformed_json_string |-> arg,
     original_string |-> NoText, current_string |-> NoText, iter |-> 0,
     data |-> NoData, pc |-> "start", outcome |-> "none", fixed |-> NoText]

\* app.py:77-80
FrameRaise(f, kind) == [f EXCEPT !.outcome = kind, !.pc = "done"]

\* app.py:33-80: one step of the call, as FixBegin, FixIterate, FixExhausted
\* and FixReturn take it
FixFrameStep(f) ==
    CASE f.pc = "start" ->
            IF f.malformed_json_string = NotAString THEN FrameRaise(f, "processing")
            ELSE [f EXCEPT !.original_string = Strip(f.malformed_json_string),
                           !.current_string = Strip(f.malformed_json_string),
                           !.pc = "loop"]
      [] f.pc = "loop" /\ f.iter < max_iterations ->
            LET cur == Stripped(f.current_string)
                r == ParseAttempt(cur)
                g == [f EXCEPT !.current_string = cur]
            IN  IF r.ok THEN [g EXCEPT !.data = r.val, !.pc = "dumps"]
                ELSE IF cur = f.original_string
                THEN IF Loads(cur).ok
                     THEN [g EXCEPT !.data = Loads(cur).val, !.pc = "dumps"]
                     ELSE FrameRaise(g, "decode")
                ELSE [g EXCEPT !.iter = f.iter + 1]
      [] f.pc = "loop" /\ f.iter = max_iterations ->
            IF Loads(f.current_string).ok
            THEN [f EXCEPT !.data = Loads(f.current_string).val, !.pc = "dumps"]
            ELSE FrameRaise(f, "decode")
      [] f.pc = "dumps" ->
            [f EXCEPT !.fixed = Dumps(f.data), !.outcome = "returned", !.pc = "done"]

\* the second call of generate_sql takes a step
OtherSqlStep ==
    /\ other.fn = "generate_sql"
    /\ other.pc # "done"
    /\ IF other.pc = "start"
       THEN \E generated_date \in Dates : other' = SqlFrameBegin(other, generated_date)
       ELSE IF other.i < Len(other.records)
       THEN other' = SqlFrameBatch(other)
       ELSE other' = SqlFrameReturn(other)
    /\ UNCHANGED <<fixvars, sqlvars, apivars>>

\* the second call of fix_malformed_json takes a step
OtherFixStep ==
    /\ other.fn = "fix_malformed_json"
    /\ other.pc # "done"
    /\ other' = FixFrameStep(other)
    /\ UNCHANGED <<fixvars, sqlvars, apivars>>

\* the calls made concurrently: a few record lists and texts
ConcRecordLists ==
    {RecordList(n, start, 1) : n \in {0, 2, 3}, start \in {1, 5}}
ConcModes == {Str(<<"P", "e", "d">>), PyNone}
MaxConcBatch == 2
ConcTexts ==
    {DumpsLine(Arr(<<Num(1), Num(2)>>)),
     Encode(DumpsLine(Arr(<<Num(1), Num(2)>>)), 2),
     Encode(DumpsLine(Str(<<"a">>)), 1),
     <<SP>> \o Encode(DumpsLine(Obj(<<>>)), 1),
     Tail(Encode(DumpsLine(Num(1)), 1))}

\* the second call: one with the arguments of the first, or another one
OtherCalls(first) ==
    {first,
     SqlFrame(RecordList(3, 2, 1), Str(<<"B", SQ, "k">>), 2),
     FixFrame(Encode(DumpsLine(Arr(<<>>)), 3)),
     FixFrame(NotAString)}

InitConc ==
    /\ ApiIdle
    /\ \/ /\ FixIdle
          /\ records \in ConcRecordLists
          /\ mode \in ConcModes
          /\ batch_size \in 1..MaxConcBatch
          /\ i = 0
          /\ parts = <<>>
          /\ sqlpc = "start"
          /\ script = NoText
          /\ other \in OtherCalls(SqlFrame(records, mode, batch_size))
       \/ /\ SqlIdle
          /\ malformed_json_string \in ConcTexts
          /\ source = Case("concurrent", NoData, 0, malformed_json_string)
          /\ pass = 1
          /\ first_fixed = NoText
          /\ original_string = NoText
          /\ current_string = NoText
          /\ iter = 0
          /\ strips = 0
          /\ attempts = <<>>
          /\ data = NoData
          /\ fixpc = "start"
          /\ outcome = "none"
          /\ fixed = NoText
          /\ other \in OtherCalls(FixFrame(malformed_json_string))

ConcNext ==
    \/ FixBegin \/ FixIterate \/ FixExhausted \/ FixReturn
    \/ SqlBegin \/ SqlBatch \/ SqlReturn
    \/ OtherSqlStep \/ OtherFixStep

----------------------------------------------------------------------------
(* Specifications *)

InitFix == FixInit /\ SqlIdle /\ ApiIdle /\ OtherIdle
InitSql == FixIdle /\ SqlInit /\ ApiIdle /\ OtherIdle
InitApi == FixIdle /\ SqlIdle /\ ApiInit /\ OtherIdle

SpecFix == InitFix /\ [][FixNext]_vars
SpecSql == InitSql /\ [][SqlNext]_vars
\* FixIterate can take a step exactly in these states (its body always has a
\* successor, and the successor differs in attempts)
IterateEnabled == fixpc = "loop" /\ iter < max_iterations

\* weak fairness of FixIterate, with its enabling condition written out
FairIterate == []<>~IterateEnabled \/ []<><<FixIterate>>_vars

\* a call that has started keeps running: the interpreter takes the next
\* step of the function until it returns or raises
SpecFixFair ==
    /\ InitFix
    /\ [][FixNext]_vars
    /\ WF_vars(FixBegin)
    /\ FairIterate
    /\ WF_vars(FixExhausted)
    /\ WF_vars(FixReturn)
SpecApi == InitApi /\ [][ApiNext]_vars
SpecConc == InitConc /\ [][ConcNext]_vars

Init == InitFix \/ InitSql \/ InitApi \/ InitConc
Next == FixNext \/ SqlNext \/ ApiNext \/ ConcNext
Spec == Init /\ [][Next]_vars

----------------------------------------------------------------------------
(* Claims about fix_malformed_json *)

FixDone == fixpc = "done"

\* the call returned text that parses to the value v
ReturnedValue(v) ==
    /\ outcome = "returned"
    /\ Loads(fixed).ok
    /\ Loads(fixed).val = v

\* C1: round trip.  For every JSON value v and every k in 1..4, the call on
\* the text of v under k layers of quote+escape encoding returns text that
\* parses to exactly v.
C1_RoundTrip ==
    (FixDone /\ pass = 1 /\ source.kind = "encoded" /\ source.layers \in 1..4)
        => ReturnedValue(source.value)

\* C2: idempotence.  For every input that is already valid JSON (object,
\* array, string, number, boolean or null), the call returns text that parses
\* to the same value, and the call on that result returns it unchanged.
C2_IdempotentOnAnyJson ==
    (FixDone /\ source.kind = "encoded" /\ source.layers = 0)
        => /\ ReturnedValue(source.value)
           /\ pass = 2 => fixed = first_fixed

\* the part of C2 that the code keeps: on valid JSON that is not a JSON string
\* the call returns text of the same value, and the second call changes nothing
IdempotentOnNonString ==
    (FixDone /\ source.kind = "encoded" /\ source.layers = 0 /\ ~IsStr(source.value))
        => /\ ReturnedValue(source.value)
           /\ pass = 2 => fixed = first_fixed

\* C9: every call ends in exactly one of: returned text, a decode failure, a
\* processing failure; the decode failure is raised exactly when none of the
\* strings the call handed to the parser within the iteration budget is valid
\* JSON; a processing failure is raised exactly for an argument that is no string.
C9_FailureTyping ==
    FixDone =>
        /\ outcome \in {"returned", "decode", "processing"}
        /\ outcome = "processing" <=> malformed_json_string = NotAString
        /\ outcome = "decode" <=>
              /\ malformed_json_string # NotAString
              /\ \A k \in 1..Len(attempts) : ~Loads(attempts[k]).ok

----------------------------------------------------------------------------
(* Claims about generate_sql *)

SqlDone == sqlpc = "done"

\* the statements appended so far, and their rows in order
Stmts == SelectSeq(parts, LAMBDA p : p.kind = "stmt")
AllRows == LET stmts == Stmts IN Flatten([k \in 1..Len(stmts) |-> stmts[k].rows])

\* position of a column in the column list
ColIndex(name) ==
    CHOOSE k \in 1..Len(ColumnNames(columns)) : ColumnNames(columns)[k] = name

\* the text emitted for record k in the named column, rows being AllRows
\* (passed in so that it is computed once)
Field(rows, k, name) == rows[k][ColIndex(name)]

CeilDiv(n, b) == (n + b - 1) \div b

\* the number of times the token tok occurs in text
Count(text, tok) == Cardinality({k \in 1..Len(text) : text[k] = tok})

\* C3: chunking.  The script holds exactly ceil(N/B) INSERT statements, each
\* ending with the ON CONFLICT ... DO NOTHING clause; every statement holds B
\* rows except the last, which holds N - B*(ceil(N/B)-1); the rows read in
\* order are the rows of the records in input order, so a report number that
\* occurs m times in the input occurs in exactly m rows.
C3_Chunking ==
    SqlDone =>
        LET N == Len(records)
            B == batch_size
            C == CeilDiv(N, B)
            stmts == Stmts
            rows == AllRows
        IN  /\ Len(stmts) = C
            /\ Count(script, InsertHead) = C
            /\ Count(script, ConflictClause) = C
            /\ \A j \in 1..Len(stmts) :
                  /\ Len(stmts[j].rows) = IF j < C THEN B ELSE N - B * (C - 1)
                  /\ LET text == StmtText(stmts[j])
                     IN  SubSeq(text, Len(text) - 1, Len(text)) = <<ConflictClause, NL>>
            /\ Len(rows) = N
            /\ \A k \in 1..N : rows[k] = row_values(records[k], mode)
            /\ \A k \in 1..N :
                  Cardinality({r \in 1..Len(rows) : rows[r][1] = rows[k][1]})
                  = Cardinality({r \in 1..N :
                        sql_str(Get(records[r], "ColliRptNum"))
                        = sql_str(Get(records[k], "ColliRptNum"))})

C3_Witness ==
    /\ SqlDone
    /\ Len(records) = 7
    /\ batch_size = 3
    /\ Len(Stmts) = 3
    /\ Len(Stmts[3].rows) = 1
    /\ records[1] = records[2]
    /\ Get(records[1], "ColliRptNum") # PyNone

\* text is a single-quoted SQL literal of content: single quotes inside the
\* delimiters come only in adjacent pairs, and halving them gives content
WellQuoted(text, content) ==
    /\ Len(text) >= 2
    /\ text[1] = SQ
    /\ text[Len(text)] = SQ
    /\ LET inner == SubSeq(text, 2, Len(text) - 1)
       IN  /\ \A k \in 1..Len(inner) :
                 (inner[k] = SQ /\ (k = Len(inner) \/ inner[k + 1] # SQ))
                     => RunBack(inner, k, SQ) % 2 = 0
           /\ Replace(inner, <<SQ, SQ>>, <<SQ>>) = content

\* the columns that take a record's value through sql_str alone
DirectColumns ==
    {"ColliRptNum", "Jurisdiction", "CountyName", "CityName", "FullDate",
     "FullTime", "MostSevereInjuryType"}

\* the value a string column is made from
ColumnValue(rec, m, name) ==
    CASE name = "Mode" -> m
      [] name = "CrashDate" ->
            IF Get(rec, "FullDate") = PyNone THEN PyNone
            ELSE LET t == PyStr(Get(rec, "FullDate"))
                 IN  Str(SubSeq(t, 1, IF Len(t) < 10 THEN Len(t) ELSE 10))
      [] OTHER -> Get(rec, name)

QuotedOrNull(rows, k, name) ==
    LET v == ColumnValue(records[k], mode, name)
    IN  IF v = PyNone THEN Field(rows, k, name) = NULL
        ELSE WellQuoted(Field(rows, k, name), PyStr(v))

IsDigits(t) == t # <<>> /\ \A k \in 1..Len(t) : t[k] \in Digits

\* -?digits or -?digits.digits
IsNumericLiteral(t) ==
    LET u == IF t # <<>> /\ t[1] = "-" THEN Tail(t) ELSE t
        dots == {k \in 1..Len(u) : u[k] = "."}
    IN  IF dots = {} THEN IsDigits(u)
        ELSE /\ Cardinality(dots) = 1
             /\ LET d == CHOOSE k \in dots : TRUE
                IN  /\ IsDigits(SubSeq(u, 1, d - 1))
                    /\ IsDigits(SubSeq(u, d + 1, Len(u)))

NumericColumns == {"InvolvedPersons", "Latitude", "Longitude"}

\* C5: each of InvolvedPersons, Latitude and Longitude is emitted as a numeric
\* literal or as bare NULL: NULL for an absent or null value, and no
\* non-numeric text in a numeric column.
C5_NumericOrNull ==
    LET rows == AllRows IN
    \A k \in 1..Len(rows) :
        \A name \in NumericColumns :
            /\ Get(records[k], name) = PyNone => Field(rows, k, name) = NULL
            /\ Field(rows, k, name) = NULL \/ IsNumericLiteral(Field(rows, k, name))

\* one single quote with nothing but whitespace around it
IsPaddedQuote(t) ==
    \E a \in 1..Len(t) :
        /\ t[a] = SQ
        /\ \A j \in 1..Len(t) : j # a => t[j] \in Whitespace

IsBlank(t) == \A j \in 1..Len(t) : t[j] \in Whitespace

\* C6 as stated: RegionName is bare NULL if the value is absent, null or
\* exactly the one-character string made of one single quote, and a quoted
\* literal of the value for every other value; it is never the four-quote literal.
C6_RegionExactPlaceholder ==
    LET rows == AllRows IN
    \A k \in 1..Len(rows) :
        LET v == Get(records[k], "RegionName")
        IN  /\ IF v = PyNone \/ v = Str(<<SQ>>)
               THEN Field(rows, k, "RegionName") = NULL
               ELSE WellQuoted(Field(rows, k, "RegionName"), PyStr(v))
            /\ Field(rows, k, "RegionName") # <<SQ, SQ, SQ, SQ>>

\* C6 amended: RegionName is bare NULL if the value is absent, null, or a
\* single quote with only whitespace around it, and a quoted literal of the
\* value for every other value; it is never the four-quote literal.
C6_RegionPlaceholder ==
    LET rows == AllRows IN
    \A k \in 1..Len(rows) :
        LET v == Get(records[k], "RegionName")
        IN  /\ IF v = PyNone \/ IsPaddedQuote(PyStr(v))
               THEN Field(rows, k, "RegionName") = NULL
               ELSE WellQuoted(Field(rows, k, "RegionName"), PyStr(v))
            /\ Field(rows, k, "RegionName") # <<SQ, SQ, SQ, SQ>>

C6_Witness ==
    /\ SqlDone
    /\ \E k \in 1..Len(AllRows) : LET rows == AllRows IN
          /\ Get(records[k], "RegionName") = Str(<<SP, SQ>>)
          /\ Field(rows, k, "RegionName") = NULL
    /\ \E k \in 1..Len(AllRows) : LET rows == AllRows IN
          /\ Get(records[k], "RegionName") = Str(<<SQ>>)
          /\ Field(rows, k, "RegionName") = NULL
    /\ \E k \in 1..Len(AllRows) : LET rows == AllRows IN
          /\ Get(records[k], "RegionName") = Str(<<SQ, SQ>>)
          /\ Field(rows, k, "RegionName") = <<SQ, SQ, SQ, SQ, SQ, SQ>>

\* C7: AgeGroup is bare NULL if the value is absent, null, empty or
\* whitespace only, and a quoted literal of the value otherwise; an empty
\* AgeGroup never gives the empty literal.
C7_AgeGroup ==
    LET rows == AllRows IN
    \A k \in 1..Len(rows) :
        LET v == Get(records[k], "AgeGroup")
        IN  /\ IF v = PyNone \/ IsBlank(PyStr(v))
               THEN Field(rows, k, "AgeGroup") = NULL
               ELSE WellQuoted(Field(rows, k, "AgeGroup"), PyStr(v))
            /\ v = Str(<<>>) => Field(rows, k, "AgeGroup") # <<SQ, SQ>>

C7_Witness ==
    /\ SqlDone
    /\ \E k \in 1..Len(AllRows) : LET rows == AllRows IN
          /\ Get(records[k], "AgeGroup") = Str(<<SP>>)
          /\ Field(rows, k, "AgeGroup") = NULL
    /\ \E k \in 1..Len(AllRows) : LET rows == AllRows IN
          /\ Get(records[k], "AgeGroup") = Str(<<>>)
          /\ Field(rows, k, "AgeGroup") = NULL
    /\ \E k \in 1..Len(AllRows) : LET rows == AllRows IN
          /\ Get(records[k], "AgeGroup") = Num(0)
          /\ Field(rows, k, "AgeGroup") = <<SQ, "0", SQ>>

\* C8: the last value of every row is ST_SetSRID(ST_MakePoint(<lng>, <lat>), 4326),
\* longitude first, with exactly the texts of the row's Longitude and Latitude
\* columns; a null coordinate shows as NULL inside the call, the geom itself
\* is never NULL.
C8_Geom ==
    LET rows == AllRows IN
    \A k \in 1..Len(rows) :
        LET row == rows[k]
        IN  /\ Len(row) = 16
            /\ ColIndex("geom") = Len(row)
            /\ row[Len(row)] = GeomOpen \o Field(rows, k, "Longitude") \o <<",", SP>>
                               \o Field(rows, k, "Latitude") \o GeomClose
            /\ row[Len(row)] # NULL
            /\ Get(records[k], "Latitude") = PyNone => Field(rows, k, "Latitude") = NULL
            /\ Get(records[k], "Longitude") = PyNone => Field(rows, k, "Longitude") = NULL

C8_Witness ==
    /\ SqlDone
    /\ \E k \in 1..Len(AllRows) : LET rows == AllRows IN
          /\ Get(records[k], "Latitude") = Flt(47, <<"0">>)
          /\ Get(records[k], "Longitude") = Flt(-122, <<"0">>)
          /\ Field(rows, k, "Latitude") # Field(rows, k, "Longitude")
    /\ \E k \in 1..Len(AllRows) : LET rows == AllRows IN
          /\ Get(records[k], "Longitude") = PyNone
          /\ Get(records[k], "Latitude") # PyNone
          /\ rows[k][16] = GeomOpen \o NULL \o <<",", SP>> \o <<"7">> \o GeomClose

MappedKeySet == {MappedKeys[j] : j \in 1..Len(MappedKeys)}

\* the record without its unmapped keys
Project(rec) == [k \in (DOMAIN rec) \cap MappedKeySet |-> rec[k]]

\* the characters and tokens of everything emitted so far
EmittedText == JoinParts(parts)

\* C10: the statements are those of the records cut down to the twelve mapped
\* keys, so two lists that agree on the mapped keys give the same statements;
\* the column list is the same sixteen double-quoted columns in every
\* statement, and neither the name nor the value of a state-plane key occurs
\* in the output.
C10_DroppedFields ==
    LET rows == AllRows
        stmts == Stmts
        text == EmittedText
    IN  /\ \A k \in 1..Len(rows) : rows[k] = row_values(Project(records[k]), mode)
        /\ \A j \in 1..Len(stmts) :
              LET names == ColumnNames(stmts[j].columns)
                  stext == StmtText(stmts[j])
              IN  /\ Len(names) = 16
                  /\ {names[c] : c \in 1..Len(names)} \cap UnmappedKeys = {}
                  /\ \A c \in 1..Len(names) :
                        \E q \in 2..(Len(stext) - 1) :
                            /\ stext[q] = names[c]
                            /\ stext[q - 1] = Q
                            /\ stext[q + 1] = Q
        /\ \A j \in 1..Len(text) : text[j] \notin UnmappedKeys \cup {"#"}
        /\ SqlDone => script = text

C10_Witness ==
    /\ SqlDone
    /\ Len(AllRows) >= 2
    /\ Get(records[1], "CrashStatePlaneX") = Str(<<"#", "1">>)
    /\ Get(records[2], "CrashStatePlaneX") = Str(<<"#", "2">>)
    /\ Get(records[1], "Longitude") # PyNone

----------------------------------------------------------------------------
(* Claims about the endpoint *)

ApiDone == apipc = "done"

\* the request has a JSON object as body with the field in it
HasField ==
    /\ request.kind = "json"
    /\ request.value.t = "obj"
    /\ \E k \in 1..Len(request.value.o) : request.value.o[k][1] = FieldName

\* the body is missing, lacks the field, or carries a field that is no string
Invalid ==
    \/ request.kind = "absent"
    \/ request.kind = "json" /\ ~HasField
    \/ HasField /\ ~IsStr(Subscript(request.value).value)

\* C11: status mapping.  Every request gets exactly one response; a request
\* whose body is missing, lacks the malformed_json field or carries a
\* non-string field gets 400 with an error field and no call of the Dequoter;
\* a decode failure of the Dequoter gets 400 with an error field; only a
\* successful dequote gets the success response, which carries fixed_json;
\* every other response carries the error field alone.
C11_StatusMapping ==
    ApiDone =>
        /\ responses = 1
        /\ response.status \in {200, 400, 500}
        /\ Invalid => /\ response.status = 400
                      /\ "error" \in response.fields
                      /\ ~invoked
        /\ (invoked /\ outcome = "decode") =>
              response.status = 400 /\ "error" \in response.fields
        /\ response.status = 200 <=> (invoked /\ outcome = "returned")
        /\ response.status = 200 =>
              "fixed_json" \in response.fields /\ response.fixed_json = fixed
        /\ response.status # 200 => response.fields = {"error"}

----------------------------------------------------------------------------
(* Claims about concurrent calls *)

\* app.py:83-181: what a call of generate_sql returns when it runs alone
\* and reads the date d from the clock
generate_sql(recs, m, b, d) ==
    LET C == CeilDiv(Len(recs), b)
        stmt(j) == LET batch == Batch(recs, (j - 1) * b, b)
                   IN  StmtPart([k \in 1..Len(batch) |-> row_values(batch[k], m)])
        body == IF C = 0 THEN <<>>
                ELSE [k \in 1..(2 * C - 1) |->
                        IF k % 2 = 1 THEN stmt((k + 1) \div 2) ELSE TextPart(<<NL>>)]
    IN  JoinParts(<<TextPart(HeaderText(m, d, Len(recs)))>> \o body)

\* app.py:41-72: the loop and its else branch when the call runs alone,
\* n iterations having failed
RECURSIVE FixLoop(_, _, _)
FixLoop(orig, cur0, n) ==
    LET done(v) == [outcome |-> "returned", fixed |-> Dumps(v)]
        failed == [outcome |-> "decode", fixed |-> NoText]
    IN  IF n = max_iterations
        THEN IF Loads(cur0).ok THEN done(Loads(cur0).val) ELSE failed
        ELSE LET cur == Stripped(cur0)
                 r == ParseAttempt(cur)
             IN  IF r.ok THEN done(r.val)
                 ELSE IF cur = orig
                 THEN IF Loads(cur).ok THEN done(Loads(cur).val) ELSE failed
                 ELSE FixLoop(orig, cur, n + 1)

\* app.py:14-80: what a call of fix_malformed_json returns or raises when it
\* runs alone
fix_malformed_json(arg) ==
    IF arg = NotAString THEN [outcome |-> "processing", fixed |-> NoText]
    ELSE FixLoop(Strip(arg), Strip(arg), 0)

\* both calls are over
BothDone ==
    /\ other.fn # "none"
    /\ other.pc = "done"
    /\ sqlpc = "done" \/ fixpc = "done"

\* the date the first call of generate_sql read
MainDate ==
    CHOOSE d \in Dates : parts[1] = TextPart(HeaderText(mode, d, Len(records)))

\* each of the two calls ended as it ends on its arguments when run alone
AsAlone ==
    /\ sqlpc = "done" => script = generate_sql(records, mode, batch_size, MainDate)
    /\ fixpc = "done" =>
          [outcome |-> outcome, fixed |-> fixed]
          = fix_malformed_json(malformed_json_string)
    /\ other.fn = "generate_sql" =>
          other.script = generate_sql(other.records, other.mode, other.batch_size,
                                      other.generated_date)
    /\ other.fn = "fix_malformed_json" =>
          [outcome |-> other.outcome, fixed |-> other.fixed]
          = fix_malformed_json(other.malformed_json_string)

\* the two calls are calls of generate_sql with equal arguments
EqualSqlCalls ==
    /\ sqlpc = "done"
    /\ other.fn = "generate_sql"
    /\ other.records = records
    /\ other.mode = mode
    /\ other.batch_size = batch_size

\* C12 as stated: under every interleaving each call returns what it returns
\* alone, and the result is a function of the arguments only: two calls of
\* generate_sql with equal records, mode and batch_size return identical
\* scripts, two calls of fix_malformed_json on equal text end alike.
C12_FunctionOfArguments ==
    BothDone =>
        /\ AsAlone
        /\ EqualSqlCalls => other.script = script
        /\ (fixpc = "done" /\ other.fn = "fix_malformed_json"
                /\ other.malformed_json_string = malformed_json_string)
              => other.outcome = outcome /\ other.fixed = fixed

\* C12 amended: under every interleaving each call returns what it returns
\* alone; the result of fix_malformed_json is a function of its argument, the
\* result of generate_sql a function of its arguments and of the UTC date it
\* reads for the header: two calls with equal records, mode and batch_size
\* return the same statements, and identical scripts when they read the same date.
C12_Independence ==
    BothDone =>
        /\ AsAlone
        /\ EqualSqlCalls =>
              /\ Tail(other.parts) = Tail(parts)
              /\ other.generated_date = MainDate => other.script = script
        /\ (fixpc = "done" /\ other.fn = "fix_malformed_json"
                /\ other.malformed_json_string = malformed_json_string)
              => other.outcome = outcome /\ other.fixed = fixed

C12_Witness ==
    /\ BothDone
    /\ EqualSqlCalls
    /\ Len(records) = 3
    /\ batch_size = 2
    /\ other.generated_date # MainDate
    /\ Tail(other.parts) = Tail(parts)
    /\ other.script # script

----------------------------------------------------------------------------
(* Claims about the loop of fix_malformed_json *)

\* the loop so far: at most 5 iterations; each iteration parses the string of
\* the iteration before or that string with one quote layer stripped, so at
\* most one strip an iteration and 5 in all; every iteration before the last
\* one failed to parse, and the string is not touched after the loop
LoopBound ==
    /\ iter \in 0..5
    /\ Len(attempts) <= 5
    /\ strips <= Len(attempts)
    /\ strips <= 5
    /\ \A k \in 1..Len(attempts) :
          LET before == IF k = 1 THEN original_string ELSE attempts[k - 1]
          IN  attempts[k] = before \/ attempts[k] = Unwrap(before)
    /\ \A k \in 1..(Len(attempts) - 1) : ~ParseAttempt(attempts[k]).ok
    /\ (fixpc \in {"dumps", "done"} /\ attempts # <<>>) =>
          current_string = attempts[Len(attempts)]

\* C13: bounded termination.  Every call on a string ends, by returning or by
\* raising, after at most 5 iterations of the unwrap loop; it strips at most
\* one quote layer an iteration, so at most 5 in all; it leaves the loop at
\* the first iteration whose parse succeeds and strips nothing after that.
C13_BoundedTermination ==
    /\ []LoopBound
    /\ (fixpc = "start") ~> (fixpc = "done")

C13_Witness ==
    /\ FixDone
    /\ source.kind = "quoted"
    /\ Len(attempts) = 5
    /\ strips = 5
    /\ iter = 5

\* the loop ran out: all 5 iterations failed and the else branch was taken
Exhausted == FixDone /\ iter = 5

\* the call ended in its first iteration on the unmodified string, whose
\* parse failed: the direct parse of lines 63-66 was taken
DirectParseTaken ==
    /\ FixDone
    /\ Len(attempts) = 1
    /\ attempts[1] = original_string
    /\ ~ParseAttempt(attempts[1]).ok

\* C14 as stated: the post-loop fallback is redundant.  Whenever all 5
\* iterations end in a parse failure the final direct parse fails as well and
\* the call ends in a decode failure; when the string was never modified the
\* direct parse of the first iteration raises the decode failure.
C14_FallbackRedundant ==
    /\ Exhausted => outcome = "decode"
    /\ DirectParseTaken => outcome = "decode"

\* C14 amended: whenever all 5 iterations end in a parse failure the final
\* direct parse decides: the call ends in a decode failure if the current
\* string is not JSON, and returns it if it is, which happens exactly when
\* it is a JSON string whose content is not JSON; when the string was never
\* modified the direct parse of the first iteration raises the decode failure.
C14_FallbackDecides ==
    /\ Exhausted =>
          LET last == Loads(current_string)
          IN  /\ outcome = "decode" <=> ~last.ok
              /\ outcome = "returned" <=>
                    (last.ok /\ IsStr(last.val) /\ ~Loads(last.val.s).ok)
              /\ outcome = "returned" => fixed = Dumps(last.val)
    /\ DirectParseTaken => outcome = "decode"

C14_Witness ==
    /\ Exhausted
    /\ source.kind = "quoted"
    /\ source.layers = 6
    /\ outcome = "returned"
    /\ fixed = <<Q, "x", Q>>

----------------------------------------------------------------------------
(* Claims about the header of the script *)

\* the n-th line of text (the lines are what the newlines separate);
\* <<"<no line>">> if text has fewer lines
Line(text, n) ==
    LET nl == {k \in 1..Len(text) : text[k] = NL}
        at(j) == IF j = 0 THEN 0
                 ELSE IF j > Cardinality(nl) THEN Len(text) + 1
                 ELSE CHOOSE p \in nl : Cardinality({q \in nl : q < p}) = j - 1
    IN  IF n > Cardinality(nl) + 1 THEN <<"<no line>">>
        ELSE SubSeq(text, at(n - 1) + 1, at(n) - 1)

\* C15: header.  For every mode and every record list the script begins with
\* exactly four comment lines (title, Mode: <mode>, Generated: <date>,
\* Records: <number of input records>), then one blank line, then the first
\* statement if there is one and nothing otherwise; the count is the number of input records
\* whatever the batch size; the text of mode stands in that comment line and,
\* as the same quoted literal in every row, in the Mode column, nowhere else.
C15_Header ==
    SqlDone =>
        LET rows == AllRows
            text == script
        IN  /\ Line(text, 1) = <<"-- CrashMap Data Import">>
            /\ Line(text, 2) = <<"-- Mode: ">> \o PyStr(mode)
            /\ \E d \in Dates : Line(text, 3) = <<"-- Generated: ">> \o d
            /\ Line(text, 4) = <<"-- Records: ">> \o IntText(Len(records))
            /\ Line(text, 5) = <<>>
            /\ Line(text, 6) = IF records = <<>> THEN <<>> ELSE <<InsertHead>>
            /\ records = <<>> => Line(text, 7) = <<"<no line>">>
            /\ \A k \in 1..Len(rows) : Field(rows, k, "Mode") = sql_str(mode)
            /\ mode # PyNone => WellQuoted(sql_str(mode), PyStr(mode))

\* the part of C15 that the code keeps: the header and the Mode column are as
\* stated for every mode without a newline in its text
HeaderForOneLineMode ==
    (\A k \in 1..Len(PyStr(mode)) : PyStr(mode)[k] # NL) => C15_Header

====
